---- MODULE Spec2Model ----
(***************************************************************************)
(* A model of the ragstral indexer: EmbeddingService (token filtering,     *)
(* batch packing, sequential batch submission, persistence of the result)  *)
(* and the run_pipeline orchestration over tags.                           *)
(*                                                                         *)
(* Texts are sequences of one-character strings.  Token quantities are     *)
(* kept in tenths (the heuristic count is words * 1.3), so that the        *)
(* comparison against max_total_tokens is exact integer arithmetic.        *)
(***************************************************************************)
EXTENDS Integers, Sequences, FiniteSets, TLC

\* ------------------------------------------------------------------ bounds
\* Largest number of chunks held by chunks.json.
MaxChunks == 3
\* Largest max_batch_size drawn for a configuration.
MaxBatch == 2
\* Largest max_total_tokens / max_sequence_length drawn for a configuration.
MaxTokenLimit == 3
\* Largest number of tags given to one invocation of run_pipeline.
MaxTags == 2
\* Number of invocations of run_pipeline over the same data directory.
MaxRuns == 2
\* Largest number of documents in the corpus handed to _chunk_corpus.
MaxDocs == 2
\* Largest number of persisted embeddings handed to index_repository.
MaxVectors == 101
\* Number of calls of index_repository against one vector store.
MaxIndexCalls == 2
\* index_repository: batch_size, the number of vectors that triggers an upsert.
UpsertBatchSize == 100

\* ---------------------------------------------------------------- defaults
\* EmbeddingService.__init__ defaults, the configuration run_pipeline uses.
DefaultMaxBatchSize == 256
DefaultMaxTotalTokens == 16384
DefaultMaxSequenceLength == 8192

\* ------------------------------------------------------------------- state
VARIABLES
    tokenizer,            \* self.tokenizer is not None
    max_batch_size,       \* self.max_batch_size
    max_total_tokens,     \* self.max_total_tokens
    max_sequence_length,  \* self.max_sequence_length
    chunks_file,          \* input_dir/chunks.json: whether it exists, and its chunk docs
    embeddings_file,      \* output_dir/embeddings.pkl: whether it exists, and its vectors
    metadata_file,        \* output_dir/metadata.json: whether it exists, and its metadata
    written,              \* the files this run has written
    pc,                   \* position of EmbeddingService.run
    texts_to_embed,       \* run: texts_to_embed
    chunk_ids,            \* run: chunk_ids
    valid_texts,          \* _get_embeddings_batch: valid_texts
    batches,              \* _get_embeddings_batch: batches
    next_batch,           \* index of the batch the submission loop is at
    all_embeddings,       \* _get_embeddings_batch: all_embeddings
    returned,             \* value returned by _get_embeddings_batch
    log,                  \* provider submissions and pacing delays, in order
    failed_at,            \* index of the batch whose submission raised, 0 if none
    run_result,           \* value returned by run: "none" until it returns
    env,                  \* run_pipeline: which credentials the environment holds
    tags,                 \* run_pipeline: the tag list of the current invocation
    tag_index,            \* run_pipeline: index of the tag the loop is at
    ppc,                  \* run_pipeline: position within the invocation
    fs,                   \* data/<repo_name>/<tag>: what the staged directory holds
    writes,               \* per tag and stage, how often its output was written
    stage_log,            \* the stages of the current invocation, in order
    run_no,               \* number of invocations of run_pipeline so far
    exit_code,            \* sys.exit status of the invocation, -1 if none
    index_store,          \* tags whose vectors were upserted
    corpus,               \* _chunk_corpus: the documents, with the chunks the splitter gives
    new_corpus,           \* _chunk_corpus: the chunked corpus, in insertion order
    chunk_to_file,        \* EmbeddingService.run: chunk_to_file
    cpc,                  \* position of the chunking flow
    idx_embeddings,       \* index_repository: the vectors loaded from embeddings.pkl
    idx_metadata,         \* index_repository: the metadata loaded from metadata.json
    pinecone,             \* the vector store: the entries of the Pinecone index
    calls                 \* the calls of index_repository so far, with their upserts

embedVars == <<tokenizer, max_batch_size, max_total_tokens, max_sequence_length,
          chunks_file, embeddings_file, metadata_file, written, pc,
          texts_to_embed, chunk_ids, valid_texts, batches, next_batch,
          all_embeddings, returned, log, failed_at, run_result>>

pipeVars == <<env, tags, tag_index, ppc, fs, writes, stage_log, run_no, exit_code,
              index_store>>

chunkVars == <<corpus, new_corpus, chunk_to_file, cpc>>

\* The variables neither EmbeddingService.run nor the tag loop touches.
indexVars == <<idx_embeddings, idx_metadata, pinecone, calls>>

otherVars == <<chunkVars, indexVars>>

vars == <<embedVars, pipeVars, otherVars>>

cfgVars == <<tokenizer, max_batch_size, max_total_tokens, max_sequence_length,
             chunks_file>>

\* ------------------------------------------------------------------- texts
\* Characters str.strip() and str.split() treat as whitespace.
Whitespace == {" ", "\n"}

RECURSIVE LStrip(_)
LStrip(s) ==
    IF s = <<>> THEN s
    ELSE IF Head(s) \in Whitespace THEN LStrip(Tail(s)) ELSE s

RECURSIVE RStrip(_)
RStrip(s) ==
    IF s = <<>> THEN s
    ELSE IF s[Len(s)] \in Whitespace THEN RStrip(SubSeq(s, 1, Len(s) - 1)) ELSE s

\* str.strip()
Strip(s) == RStrip(LStrip(s))

\* _format_doc: title and text stripped, joined by a newline when there is a title.
FormatDoc(doc) ==
    LET title == Strip(doc.title)
        text  == Strip(doc.text)
    IN  IF title # <<>> THEN title \o <<"\n">> \o text ELSE text

\* tokenizer.encode(text, bos=False, eos=False): a greedy tokenizer whose
\* vocabulary holds every single character and the merged token "ab".
RECURSIVE Encode(_)
Encode(text) ==
    IF text = <<>> THEN <<>>
    ELSE IF Len(text) >= 2 /\ text[1] = "a" /\ text[2] = "b"
         THEN << <<"a", "b">> >> \o Encode(SubSeq(text, 3, Len(text)))
         ELSE << <<text[1]>> >> \o Encode(Tail(text))

\* tokenizer.decode(tokens): the concatenation of the tokens' characters.
RECURSIVE Decode(_)
Decode(tokens) ==
    IF tokens = <<>> THEN <<>> ELSE Head(tokens) \o Decode(Tail(tokens))

\* len(text.split()): the number of maximal runs of non-whitespace characters.
WordCount(text) ==
    Cardinality({i \in 1..Len(text) :
        /\ text[i] \notin Whitespace
        /\ (i = 1 \/ text[i - 1] \in Whitespace)})

\* text_token_count of the packing loop, in tenths of a token:
\* len(tokens) with the tokenizer, len(text.split()) * 1.3 without.
TokenCount10(text) ==
    IF tokenizer THEN 10 * Len(Encode(text)) ELSE 13 * WordCount(text)

\* tokens[: max_sequence_length] decoded back to text.
TruncateTokens(text, n) == Decode(SubSeq(Encode(text), 1, n))

\* One iteration of the filtering loop: the text kept for `text`.
FilterText(text) ==
    IF tokenizer
    THEN IF Len(Encode(text)) <= max_sequence_length
         THEN text
         ELSE TruncateTokens(text, max_sequence_length)
    ELSE text

FilterTexts(texts) == [i \in 1..Len(texts) |-> FilterText(texts[i])]

\* ----------------------------------------------------------------- packing
\* PackStep with the item that closes a batch left out of the batch it opens.
PackStepDropOnClose(st, text) ==
    LET text_token_count == TokenCount10(text)
        close ==
            /\ \/ Len(st.current_batch) >= max_batch_size
               \/ st.current_batch_tokens + text_token_count > 10 * max_total_tokens
            /\ st.current_batch # <<>>
    IN  IF close
        THEN [batches |-> Append(st.batches, st.current_batch),
              current_batch |-> <<>>,
              current_batch_tokens |-> 0]
        ELSE [batches |-> st.batches,
              current_batch |-> Append(st.current_batch, text),
              current_batch_tokens |-> st.current_batch_tokens + text_token_count]

\* PackStep closing the batch as soon as the token budget is reached (>= for >).
PackStepEagerClose(st, text) ==
    LET text_token_count == TokenCount10(text)
        close ==
            /\ \/ Len(st.current_batch) >= max_batch_size
               \/ st.current_batch_tokens + text_token_count >= 10 * max_total_tokens
            /\ st.current_batch # <<>>
        opened == IF close
                  THEN [batches |-> Append(st.batches, st.current_batch),
                        current_batch |-> <<>>,
                        current_batch_tokens |-> 0]
                  ELSE st
    IN  [batches |-> opened.batches,
         current_batch |-> Append(opened.current_batch, text),
         current_batch_tokens |-> opened.current_batch_tokens + text_token_count]

\* One iteration of the batching loop over (batches, current_batch,
\* current_batch_tokens).
PackStep(st, text) ==
    LET text_token_count == TokenCount10(text)
        close ==
            /\ \/ Len(st.current_batch) >= max_batch_size
               \/ st.current_batch_tokens + text_token_count > 10 * max_total_tokens
            /\ st.current_batch # <<>>
        opened == IF close
                  THEN [batches |-> Append(st.batches, st.current_batch),
                        current_batch |-> <<>>,
                        current_batch_tokens |-> 0]
                  ELSE st
    IN  [batches |-> opened.batches,
         current_batch |-> Append(opened.current_batch, text),
         current_batch_tokens |-> opened.current_batch_tokens + text_token_count]

RECURSIVE PackLoop(_, _)
PackLoop(st, texts) ==
    IF texts = <<>> THEN st ELSE PackLoop(PackStep(st, Head(texts)), Tail(texts))

\* The batches formed from valid_texts, the last open batch included.
MakeBatches(texts) ==
    LET st == PackLoop([batches |-> <<>>, current_batch |-> <<>>,
                        current_batch_tokens |-> 0], texts)
    IN  IF st.current_batch # <<>>
        THEN Append(st.batches, st.current_batch)
        ELSE st.batches

\* ------------------------------------------------------------------ inputs
\* The chunk documents chunks.json may hold ({"title": ..., "text": ...}).
Docs ==
    { [title |-> <<>>,    text |-> <<"a">>],
      [title |-> <<"a">>, text |-> <<"b">>],
      [title |-> <<>>,    text |-> <<" ", "a", "b", " ", "a", " ", "b", " ">>] }

\* chunks.json with n chunks: chunk i has identifier i (a JSON object keeps
\* insertion order, and its keys are distinct).
ChunkLists ==
    UNION { [1..n -> Docs] : n \in 0..MaxChunks }

\* A file that does not exist, and one left by an earlier run.
NoFile == [exists |-> FALSE, data |-> <<>>]
StaleFile == [exists |-> TRUE, data |-> <<>>]

\* ---------------------------------------------------------------- provider
\* The provider's embedding of a text.
Embed(text) == [embedding_of |-> text]

\* response.data for one request, in request order: a vector per input, or
\* one vector fewer, or one vector more.
ProviderResponses(batch) ==
    LET exact == [i \in 1..Len(batch) |-> Embed(batch[i])]
    IN  { exact,
          SubSeq(exact, 1, Len(exact) - 1),
          Append(exact, Embed(batch[Len(batch)])) }

SubmitEvent(k) == [type |-> "submit", batch |-> k]
SleepEvent == [type |-> "sleep", batch |-> 0]

\* ------------------------------------------------------ staged directories
\* Tags named on the command line, and the sentinel used when none is given.
TagNames == {"v1", "v2"}
AllTags == TagNames \cup {"latest"}

\* The tag lists argparse can hand to run_pipeline (nargs="*").
TagLists == UNION { [1..n -> TagNames] : n \in 0..MaxTags }

\* data/<repo_name>/<tag> before anything was fetched.
EmptyTagDir ==
    [repo_dir    |-> FALSE,     \* data/<repo_name>/<tag> exists
     raw         |-> "absent",  \* stage=raw: "absent", "nocode" or "code"
     corpus_json |-> FALSE,     \* stage=preprocessed/corpus.json exists
     chunks_json |-> "absent",  \* stage=preprocessed/chunks.json: "absent", "empty", "chunks"
     emb_files   |-> FALSE]     \* stage=embeddings holds embeddings.pkl and metadata.json

NoWrites == [raw |-> 0, preprocessed |-> 0, embeddings |-> 0]

\* No invocation of run_pipeline yet, over an empty data directory.
PipelineIdle ==
    /\ env = [mistral |-> TRUE, pinecone |-> TRUE]
    /\ tags = <<>>
    /\ tag_index = 1
    /\ ppc = "idle"
    /\ fs = [t \in AllTags |-> EmptyTagDir]
    /\ writes = [t \in AllTags |-> NoWrites]
    /\ stage_log = <<>>
    /\ run_no = 0
    /\ exit_code = -1
    /\ index_store = {}

\* ---------------------------------------------------------- chunk identifiers
\* The marker between a document identifier and a chunk index.
Marker == <<"_", "<", "c", "h", "u", "n", "k", ">", "_">>

DigitChars == <<"0", "1", "2", "3", "4", "5", "6", "7", "8", "9">>

\* str(i) of the f-string, for i >= 0.
RECURSIVE Str(_)
Str(i) ==
    IF i < 10 THEN <<DigitChars[i + 1]>>
    ELSE Str(i \div 10) \o <<DigitChars[(i % 10) + 1]>>

\* s.find(sep) + 1: the position of the first occurrence of sep in s, 0 if none.
IndexOf(s, sep) ==
    LET hits == {i \in 1..(Len(s) - Len(sep) + 1) :
                    SubSeq(s, i, i + Len(sep) - 1) = sep}
    IN  IF hits = {} THEN 0 ELSE CHOOSE i \in hits : \A j \in hits : i <= j

\* s.split(sep)[0]
SplitFirst(s, sep) ==
    IF IndexOf(s, sep) = 0 THEN s ELSE SubSeq(s, 1, IndexOf(s, sep) - 1)

\* s.split(sep)[-1]: what follows the last occurrence of sep.
RECURSIVE SplitLast(_, _)
SplitLast(s, sep) ==
    IF IndexOf(s, sep) = 0 THEN s
    ELSE SplitLast(SubSeq(s, IndexOf(s, sep) + Len(sep), Len(s)), sep)

\* f"{orig_id}_<chunk>_{i}"
ChunkId(orig_id, i) == orig_id \o Marker \o Str(i)

\* EmbeddingService.run: the original file recovered from a chunk identifier.
OriginalFile(chunk_id) ==
    IF IndexOf(chunk_id, Marker) # 0 THEN SplitFirst(chunk_id, Marker) ELSE chunk_id

\* The relative file paths that key the corpus.
DocIds ==
    { <<"a">>,
      <<"a", ".", "p", "y">>,
      <<"x">> \o Marker \o <<"y">>,
      <<"a">> \o Marker \o <<"0">> }

\* The corpora handed to _chunk_corpus: documents with distinct identifiers
\* and non-empty text, each with the number of chunks split_text returns.
Corpora ==
    UNION { { c \in [1..n -> [orig_id : DocIds, n_chunks : 0..MaxChunks]] :
                \A i, j \in 1..n : i # j => c[i].orig_id # c[j].orig_id }
            : n \in 1..MaxDocs }

\* new_corpus[key] = value of a dict kept in insertion order.
DictPut(d, key, value) ==
    IF \E i \in 1..Len(d) : d[i].chunk_id = key
    THEN [i \in 1..Len(d) |-> IF d[i].chunk_id = key THEN value ELSE d[i]]
    ELSE Append(d, value)

\* The entries one document adds to new_corpus, from chunk i on: the document
\* itself when split_text returned nothing, else one entry per chunk.
RECURSIVE ChunkDocFrom(_, _, _)
ChunkDocFrom(d, doc, i) ==
    IF doc.n_chunks = 0
    THEN DictPut(d, doc.orig_id,
                 [chunk_id |-> doc.orig_id, orig_id |-> doc.orig_id, index |-> 0,
                  whole |-> TRUE])
    ELSE IF i >= doc.n_chunks THEN d
    ELSE ChunkDocFrom(
             DictPut(d, ChunkId(doc.orig_id, i),
                     [chunk_id |-> ChunkId(doc.orig_id, i), orig_id |-> doc.orig_id,
                      index |-> i, whole |-> FALSE]),
             doc, i + 1)

\* _chunk_corpus over the documents in order.
RECURSIVE ChunkCorpusFrom(_, _)
ChunkCorpusFrom(d, docs) ==
    IF docs = <<>> THEN d
    ELSE ChunkCorpusFrom(ChunkDocFrom(d, Head(docs), 0), Tail(docs))

\* Nothing chunked yet.
ChunkIdle ==
    /\ corpus = <<>>
    /\ new_corpus = <<>>
    /\ chunk_to_file = <<>>
    /\ cpc = "idle"

\* ---------------------------------------------------- index_repository
\* No embeddings loaded, an empty vector store.
IndexIdle ==
    /\ idx_embeddings = <<>>
    /\ idx_metadata = [chunk_ids |-> <<>>, chunk_to_file |-> <<>>]
    /\ pinecone = {}
    /\ calls = <<>>

\* ------------------------------------------------------ EmbeddingService.run
Init ==
    /\ PipelineIdle
    /\ ChunkIdle
    /\ IndexIdle
    /\ tokenizer \in BOOLEAN
    /\ max_batch_size \in 1..MaxBatch
    /\ max_total_tokens \in 1..MaxTokenLimit
    \* the configuration contract: max_sequence_length <= max_total_tokens
    /\ max_sequence_length \in 1..max_total_tokens
    /\ \E exists \in BOOLEAN :
         \E docs \in ChunkLists :
           chunks_file = [exists |-> exists,
                          data |-> IF exists THEN docs ELSE <<>>]
    \* stage=embeddings: empty, left complete, or left with embeddings.pkl alone
    /\ \E out \in {<<NoFile, NoFile>>, <<StaleFile, StaleFile>>, <<StaleFile, NoFile>>} :
          embeddings_file = out[1] /\ metadata_file = out[2]
    /\ written = {}
    /\ pc = "start"
    /\ texts_to_embed = <<>>
    /\ chunk_ids = <<>>
    /\ valid_texts = <<>>
    /\ batches = <<>>
    /\ next_batch = 1
    /\ all_embeddings = <<>>
    /\ returned = <<>>
    /\ log = <<>>
    /\ failed_at = 0
    /\ run_result = "none"

\* run up to the call of _get_embeddings_batch.
RunStart ==
    /\ pc = "start"
    /\ IF embeddings_file.exists /\ metadata_file.exists
       THEN /\ run_result' = "True"
            /\ pc' = "done"
            /\ UNCHANGED <<texts_to_embed, chunk_ids>>
       ELSE IF ~chunks_file.exists \/ chunks_file.data = <<>>
       THEN /\ run_result' = "False"
            /\ pc' = "done"
            /\ UNCHANGED <<texts_to_embed, chunk_ids>>
       ELSE /\ texts_to_embed' =
                [i \in 1..Len(chunks_file.data) |-> FormatDoc(chunks_file.data[i])]
            /\ chunk_ids' = [i \in 1..Len(chunks_file.data) |-> i]
            /\ pc' = "pack"
            /\ UNCHANGED run_result
    /\ UNCHANGED <<pipeVars, otherVars, cfgVars, embeddings_file, metadata_file, written, valid_texts,
                   batches, next_batch, all_embeddings, returned, log, failed_at>>

\* _get_embeddings_batch: the filtering loop and the batching loop.
GetEmbeddingsPack ==
    /\ pc = "pack"
    /\ valid_texts' = FilterTexts(texts_to_embed)
    /\ batches' = MakeBatches(FilterTexts(texts_to_embed))
    /\ pc' = "submit"
    /\ UNCHANGED <<pipeVars, otherVars, cfgVars, embeddings_file, metadata_file, written, texts_to_embed,
                   chunk_ids, next_batch, all_embeddings, returned, log, failed_at,
                   run_result>>

\* SubmitBatch whose exception handler logs the error and goes on to the next batch.
SubmitBatchContinue ==
    /\ pc = "submit"
    /\ next_batch <= Len(batches)
    /\ \/ \E data \in ProviderResponses(batches[next_batch]) :
            /\ all_embeddings' = all_embeddings \o data
            /\ log' = log \o <<SubmitEvent(next_batch), SleepEvent>>
            /\ UNCHANGED failed_at
       \/ /\ log' = Append(log, SubmitEvent(next_batch))
          /\ failed_at' = next_batch
          /\ UNCHANGED all_embeddings
    /\ next_batch' = next_batch + 1
    /\ UNCHANGED <<pc, returned>>
    /\ UNCHANGED <<pipeVars, otherVars, cfgVars, embeddings_file, metadata_file, written, texts_to_embed,
                   chunk_ids, valid_texts, batches, run_result>>

\* SubmitBatch whose exception handler returns the vectors gathered so far.
SubmitBatchPartial ==
    /\ pc = "submit"
    /\ next_batch <= Len(batches)
    /\ \/ \E data \in ProviderResponses(batches[next_batch]) :
            /\ all_embeddings' = all_embeddings \o data
            /\ log' = log \o <<SubmitEvent(next_batch), SleepEvent>>
            /\ next_batch' = next_batch + 1
            /\ UNCHANGED <<pc, returned, failed_at>>
       \/ /\ log' = Append(log, SubmitEvent(next_batch))
          /\ failed_at' = next_batch
          /\ returned' = all_embeddings
          /\ pc' = "check"
          /\ UNCHANGED <<all_embeddings, next_batch>>
    /\ UNCHANGED <<pipeVars, otherVars, cfgVars, embeddings_file, metadata_file, written, texts_to_embed,
                   chunk_ids, valid_texts, batches, run_result>>

\* One iteration of the submission loop: the request, then either the
\* vectors are appended and the loop sleeps, or the exception handler returns [].
SubmitBatch ==
    /\ pc = "submit"
    /\ next_batch <= Len(batches)
    /\ \/ \E data \in ProviderResponses(batches[next_batch]) :
            /\ all_embeddings' = all_embeddings \o data
            /\ log' = log \o <<SubmitEvent(next_batch), SleepEvent>>
            /\ next_batch' = next_batch + 1
            /\ UNCHANGED <<pc, returned, failed_at>>
       \/ /\ log' = Append(log, SubmitEvent(next_batch))
          /\ failed_at' = next_batch
          /\ returned' = <<>>
          /\ pc' = "check"
          /\ UNCHANGED <<all_embeddings, next_batch>>
    /\ UNCHANGED <<pipeVars, otherVars, cfgVars, embeddings_file, metadata_file, written, texts_to_embed,
                   chunk_ids, valid_texts, batches, run_result>>

\* The submission loop is over: return all_embeddings.
ReturnEmbeddings ==
    /\ pc = "submit"
    /\ next_batch > Len(batches)
    /\ returned' = all_embeddings
    /\ pc' = "check"
    /\ UNCHANGED <<pipeVars, otherVars, cfgVars, embeddings_file, metadata_file, written, texts_to_embed,
                   chunk_ids, valid_texts, batches, next_batch, all_embeddings, log,
                   failed_at, run_result>>

\* ResultRejected without the comparison of the two lengths.
ResultRejectedEmptyOnly == returned = <<>>

\* run's test of the returned list: `not all_embeddings or len(...) != len(...)`.
ResultRejected == returned = <<>> \/ Len(returned) # Len(texts_to_embed)

\* run after the call: reject the result, or save both files.
RunFinish ==
    /\ pc = "check"
    /\ IF ResultRejected
       THEN /\ run_result' = "False"
            /\ UNCHANGED <<embeddings_file, metadata_file, written>>
       ELSE /\ embeddings_file' = [exists |-> TRUE, data |-> returned]
            /\ metadata_file' =
                 [exists |-> TRUE,
                  data |-> [chunk_ids |-> chunk_ids, num_chunks |-> Len(chunk_ids)]]
            /\ written' = {"embeddings.pkl", "metadata.json"}
            /\ run_result' = "True"
    /\ pc' = "done"
    /\ UNCHANGED <<pipeVars, otherVars, cfgVars, texts_to_embed, chunk_ids, valid_texts, batches,
                   next_batch, all_embeddings, returned, log, failed_at>>

Next ==
    \/ RunStart
    \/ GetEmbeddingsPack
    \/ SubmitBatch
    \/ ReturnEmbeddings
    \/ RunFinish

Spec == Init /\ [][Next]_vars

\* ------------------------------------------------- claims: batch packing
\* The packing has run: batches holds what _get_embeddings_batch formed.
Packed == pc \in {"submit", "check", "done"} /\ texts_to_embed # <<>>

RECURSIVE SumTokens10(_)
SumTokens10(batch) ==
    IF batch = <<>> THEN 0 ELSE TokenCount10(Head(batch)) + SumTokens10(Tail(batch))

RECURSIVE Concat(_)
Concat(bs) == IF bs = <<>> THEN <<>> ELSE Head(bs) \o Concat(Tail(bs))

\* Position in the input list of the first item of batch k.
BatchStart(k) == Len(Concat(SubSeq(batches, 1, k - 1))) + 1

\* Input item i was taken through the truncation branch of the filtering loop.
WasTruncated(i) ==
    tokenizer /\ Len(Encode(texts_to_embed[i])) > max_sequence_length

\* C1: when max_sequence_length <= max_total_tokens, every batch holds at most
\* max_batch_size items and at most max_total_tokens tokens in total, except a
\* singleton batch holding one truncated oversized item.
C1_BatchLimits ==
    (Packed /\ max_sequence_length <= max_total_tokens) =>
        \A k \in 1..Len(batches) :
            /\ Len(batches[k]) <= max_batch_size
            /\ \/ SumTokens10(batches[k]) <= 10 * max_total_tokens
               \/ Len(batches[k]) = 1 /\ WasTruncated(BatchStart(k))

\* C2: the concatenation of the batches, in batch order, has the length and the
\* order of the input list: item i is input item i or its truncation.
C2_OrderPreserved ==
    Packed =>
        LET flat == Concat(batches) IN
        /\ Len(flat) = Len(texts_to_embed)
        /\ \A i \in 1..Len(texts_to_embed) :
              flat[i] =
                  IF WasTruncated(i)
                  THEN TruncateTokens(texts_to_embed[i], max_sequence_length)
                  ELSE texts_to_embed[i]

\* C2 witness: several batches were formed and one of their items is a truncation.
C2_Witness ==
    /\ Packed
    /\ Len(batches) >= 2
    /\ \E i \in 1..Len(texts_to_embed) :
          WasTruncated(i) /\ Concat(batches)[i] # texts_to_embed[i]
    /\ \E i \in 1..Len(texts_to_embed) : ~WasTruncated(i)

\* C3: every item placed in a batch counts at most max_sequence_length tokens,
\* an oversized input item exactly max_sequence_length, with or without the
\* real tokenizer.
C3_ItemsWithinSequenceLength ==
    Packed =>
        \A i \in 1..Len(Concat(batches)) :
            /\ TokenCount10(Concat(batches)[i]) <= 10 * max_sequence_length
            /\ TokenCount10(texts_to_embed[i]) > 10 * max_sequence_length
                  => TokenCount10(Concat(batches)[i]) = 10 * max_sequence_length

\* C14: the packer is greedy: a batch is followed by another only when it is
\* full or the first item of the next batch would not fit its token budget,
\* and no batch is empty.
C14_GreedyPacking ==
    Packed =>
        \A k \in 1..Len(batches) :
            /\ batches[k] # <<>>
            /\ k < Len(batches) =>
                  \/ Len(batches[k]) = max_batch_size
                  \/ SumTokens10(batches[k]) + TokenCount10(batches[k + 1][1])
                        > 10 * max_total_tokens

\* C14 witness: a batch below max_batch_size items was closed because the
\* next item did not fit its token budget, and another batch holds two items.
C14_Witness ==
    /\ Packed
    /\ \E k \in 1..(Len(batches) - 1) :
          /\ Len(batches[k]) < max_batch_size
          /\ SumTokens10(batches[k]) <= 10 * max_total_tokens
          /\ SumTokens10(batches[k]) + TokenCount10(batches[k + 1][1])
                > 10 * max_total_tokens
    /\ \E j \in 1..Len(batches) : Len(batches[j]) >= 2

\* --------------------------------------------- claims: batch submission
Submissions == SelectSeq(log, LAMBDA e : e.type = "submit")
Sleeps == SelectSeq(log, LAMBDA e : e.type = "sleep")

\* C4: batches are submitted in the order they were formed, one at a time, and
\* after the submission of batch k raised, no later batch is submitted.
C4_SubmittedInOrder ==
    LET subs == Submissions IN
    /\ \A i \in 1..Len(subs) : subs[i].batch = i
    /\ Len(subs) <= Len(batches)
    /\ failed_at # 0 =>
          /\ Len(subs) = failed_at
          /\ log[Len(log)] = SubmitEvent(failed_at)

\* C4 witness: batch 2 of 3 raised and the run is over.
C4_Witness ==
    /\ pc = "done"
    /\ Len(batches) = 3
    /\ failed_at = 2

\* C5: when a batch submission fails, _get_embeddings_batch returns an empty
\* list, run returns False, and neither output file is written.
C5_FailureIsAtomic ==
    failed_at # 0 =>
        /\ returned = <<>>
        /\ written = {}
        /\ embeddings_file \in {NoFile, StaleFile}
        /\ metadata_file \in {NoFile, StaleFile}
        /\ pc = "done" => run_result = "False"

\* C5 witness: the second batch failed after the first one returned vectors.
C5_Witness ==
    /\ pc = "done"
    /\ failed_at = 2
    /\ all_embeddings # <<>>
    /\ run_result = "False"

\* C6: between successive submissions there is one pacing delay and none
\* follows the final batch: n successful batches make n - 1 delays.
C6_NoDelayAfterFinalBatch ==
    (pc \in {"check", "done"} /\ failed_at = 0 /\ batches # <<>>) =>
        /\ Len(Sleeps) = Len(batches) - 1
        /\ log[Len(log)].type = "submit"

\* C7: run succeeds and persists only when the number of returned vectors
\* equals the number of chunks loaded; a different count fails the run.
C7_CountMismatchFails ==
    pc = "done" =>
        /\ (run_result = "True" /\ written # {}) =>
              /\ Len(returned) = Len(chunks_file.data)
              /\ Len(embeddings_file.data) = Len(chunks_file.data)
              /\ metadata_file.data.num_chunks = Len(chunks_file.data)
        /\ (texts_to_embed # <<>> /\ Len(returned) # Len(chunks_file.data)) =>
              /\ run_result = "False"
              /\ written = {}

\* C7 witness: no submission raised, the provider returned a different number
\* of vectors, and the run failed.
C7_Witness ==
    /\ pc = "done"
    /\ failed_at = 0
    /\ returned # <<>>
    /\ Len(returned) # Len(chunks_file.data)
    /\ run_result = "False"

\* C8: after a successful run, persisted vector i is the provider's embedding
\* of the formatted text of the chunk named by persisted chunk_ids[i] (or of
\* its truncation), whatever number of vectors each response held.
C8_VectorsAligned ==
    (pc = "done" /\ run_result = "True" /\ written # {}) =>
        /\ Len(embeddings_file.data) = Len(metadata_file.data.chunk_ids)
        /\ \A i \in 1..Len(metadata_file.data.chunk_ids) :
              embeddings_file.data[i] =
                  Embed(FilterText(FormatDoc(
                      chunks_file.data[metadata_file.data.chunk_ids[i]])))

\* ------------------------------------------------------------ run_pipeline
\* An EmbeddingService as run_pipeline constructs it, not yet run.
EmbeddingIdle ==
    /\ tokenizer = TRUE
    /\ max_batch_size = DefaultMaxBatchSize
    /\ max_total_tokens = DefaultMaxTotalTokens
    /\ max_sequence_length = DefaultMaxSequenceLength
    /\ chunks_file = NoFile
    /\ embeddings_file = NoFile
    /\ metadata_file = NoFile
    /\ written = {}
    /\ pc = "start"
    /\ texts_to_embed = <<>>
    /\ chunk_ids = <<>>
    /\ valid_texts = <<>>
    /\ batches = <<>>
    /\ next_batch = 1
    /\ all_embeddings = <<>>
    /\ returned = <<>>
    /\ log = <<>>
    /\ failed_at = 0
    /\ run_result = "none"

PipelineInit == EmbeddingIdle /\ PipelineIdle /\ ChunkIdle /\ IndexIdle

StageEvent(stage, outcome) ==
    [index |-> tag_index, tag |-> tags[tag_index], stage |-> stage, outcome |-> outcome]

\* What follows a failed stage of the tag loop: the statement after the error log.
AfterStageFailure ==
    /\ ppc' = "returned"
    /\ UNCHANGED tag_index

\* Invoke without the two credential checks.
InvokeNoCredentialCheck ==
    /\ ppc \in {"idle", "returned", "exited"}
    /\ run_no < MaxRuns
    /\ run_no' = run_no + 1
    /\ \E given \in TagLists :
          tags' = IF given = <<>> THEN <<"latest">> ELSE given
    /\ \E e \in [mistral : BOOLEAN, pinecone : BOOLEAN] : env' = e
    /\ stage_log' = <<>>
    /\ tag_index' = 1
    /\ ppc' = "download" /\ exit_code' = -1
    /\ UNCHANGED <<embedVars, otherVars, fs, writes, index_store>>

\* run_pipeline up to the tag loop: the tag default, the credential checks and
\* the construction of the services.
Invoke ==
    /\ ppc \in {"idle", "returned", "exited"}
    /\ run_no < MaxRuns
    /\ run_no' = run_no + 1
    /\ \E given \in TagLists :
          tags' = IF given = <<>> THEN <<"latest">> ELSE given
    /\ \E e \in [mistral : BOOLEAN, pinecone : BOOLEAN] : env' = e
    /\ stage_log' = <<>>
    /\ tag_index' = 1
    /\ IF ~env'.mistral \/ ~env'.pinecone
       THEN ppc' = "exited" /\ exit_code' = 1
       ELSE ppc' = "download" /\ exit_code' = -1
    /\ UNCHANGED <<embedVars, otherVars, fs, writes, index_store>>

\* The tag loop: skip the download when data/<repo_name>/<tag> exists, else
\* download_repo into stage=raw.
DownloadStage ==
    /\ ppc = "download"
    /\ tag_index <= Len(tags)
    /\ LET t == tags[tag_index] IN
       IF fs[t].repo_dir
       THEN /\ stage_log' = Append(stage_log, StageEvent("download", "skipped"))
            /\ ppc' = "preprocess"
            /\ UNCHANGED <<fs, writes, tag_index>>
       ELSE \/ \E content \in {"code", "nocode"} :
                 /\ fs' = [fs EXCEPT ![t].repo_dir = TRUE, ![t].raw = content]
                 /\ writes' = [writes EXCEPT ![t].raw = @ + 1]
                 /\ stage_log' = Append(stage_log, StageEvent("download", "ok"))
                 /\ ppc' = "preprocess"
                 /\ UNCHANGED tag_index
            \/ \* the request or the extraction raised: rmtree(stage=raw)
               /\ fs' = [fs EXCEPT ![t].repo_dir = TRUE, ![t].raw = "absent"]
               /\ stage_log' = Append(stage_log, StageEvent("download", "failed"))
               /\ AfterStageFailure
               /\ UNCHANGED writes
            \/ \* target_dir.mkdir itself raised: nothing to clean up
               /\ stage_log' = Append(stage_log, StageEvent("download", "failed"))
               /\ AfterStageFailure
               /\ UNCHANGED <<fs, writes>>
    /\ UNCHANGED <<embedVars, otherVars, env, tags, run_no, exit_code, index_store>>

\* CodePreprocessor.run: flatten stage=raw, write corpus.json and chunks.json.
PreprocessorRun(t) ==
    /\ fs' = [fs EXCEPT ![t].corpus_json = TRUE,
                        ![t].chunks_json =
                            IF fs[t].raw = "code" THEN "chunks" ELSE "empty"]
    /\ writes' = [writes EXCEPT ![t].preprocessed = @ + 1]

\* The tag loop: preprocessor.run, which returns True or raises.
PreprocessStage ==
    /\ ppc = "preprocess"
    /\ LET t == tags[tag_index] IN
       \/ /\ PreprocessorRun(t)
          /\ stage_log' = Append(stage_log, StageEvent("preprocess", "ok"))
          /\ ppc' = "embed"
          /\ UNCHANGED tag_index
       \/ /\ stage_log' = Append(stage_log, StageEvent("preprocess", "failed"))
          /\ AfterStageFailure
          /\ UNCHANGED <<fs, writes>>
    /\ UNCHANGED <<embedVars, otherVars, env, tags, run_no, exit_code, index_store>>

\* The tag loop: embedding_service.run, by its outcome.
EmbedStage ==
    /\ ppc = "embed"
    /\ LET t == tags[tag_index] IN
       IF fs[t].emb_files
       THEN /\ stage_log' = Append(stage_log, StageEvent("embed", "skipped"))
            /\ ppc' = "index"
            /\ UNCHANGED <<fs, writes, tag_index>>
       ELSE IF fs[t].chunks_json # "chunks"
       THEN /\ stage_log' = Append(stage_log, StageEvent("embed", "failed"))
            /\ AfterStageFailure
            /\ UNCHANGED <<fs, writes>>
       ELSE \/ /\ fs' = [fs EXCEPT ![t].emb_files = TRUE]
               /\ writes' = [writes EXCEPT ![t].embeddings = @ + 1]
               /\ stage_log' = Append(stage_log, StageEvent("embed", "ok"))
               /\ ppc' = "index"
               /\ UNCHANGED tag_index
            \/ /\ stage_log' = Append(stage_log, StageEvent("embed", "failed"))
               /\ AfterStageFailure
               /\ UNCHANGED <<fs, writes>>
    /\ UNCHANGED <<embedVars, otherVars, env, tags, run_no, exit_code, index_store>>

\* The tag loop: indexer.index_repository, which returns or raises; after it
\* the loop moves to the next tag.
IndexStage ==
    /\ ppc = "index"
    /\ LET t == tags[tag_index] IN
       \/ /\ index_store' = index_store \cup {t}
          /\ stage_log' = Append(stage_log, StageEvent("index", "ok"))
          /\ tag_index' = tag_index + 1
          /\ ppc' = "download"
       \/ /\ stage_log' = Append(stage_log, StageEvent("index", "failed"))
          /\ AfterStageFailure
          /\ UNCHANGED index_store
    /\ UNCHANGED <<embedVars, otherVars, env, tags, fs, writes, run_no, exit_code>>

\* The tag loop is exhausted: run_pipeline returns.
PipelineReturn ==
    /\ ppc = "download"
    /\ tag_index > Len(tags)
    /\ ppc' = "returned"
    /\ UNCHANGED <<embedVars, otherVars, env, tags, tag_index, fs, writes, stage_log, run_no,
                   exit_code, index_store>>

PipelineNext ==
    \/ Invoke
    \/ DownloadStage
    \/ PreprocessStage
    \/ EmbedStage
    \/ IndexStage
    \/ PipelineReturn

PipelineSpec == PipelineInit /\ [][PipelineNext]_vars

\* ------------------------------------------------------ claims: run_pipeline
\* The tags of the current invocation whose loop iteration has started.
StartedIndexes == {stage_log[i].index : i \in 1..Len(stage_log)}

\* C9: a stage failure for one tag leaves the later tags of the list to be
\* processed: when run_pipeline returns, every tag of the list was processed.
C9_LaterTagsProcessed ==
    ppc = "returned" => \A i \in 1..Len(tags) : i \in StartedIndexes

\* C10: a stage whose output files exist already does not compute or write
\* them again.
C10_StagesSkipExistingOutput ==
    [][\A t \in AllTags :
          /\ fs[t].raw # "absent" => writes'[t].raw = writes[t].raw
          /\ (fs[t].corpus_json /\ fs[t].chunks_json # "absent")
                => writes'[t].preprocessed = writes[t].preprocessed
          /\ fs[t].emb_files => writes'[t].embeddings = writes[t].embeddings]_vars

\* C11: with MISTRAL_API_KEY or PINECONE_API_KEY missing, run_pipeline exits
\* with a non-zero status before any stage runs for any tag.
C11_MissingCredentialExits ==
    (run_no > 0 /\ (~env.mistral \/ ~env.pinecone)) =>
        /\ ppc = "exited"
        /\ exit_code # 0 /\ exit_code # -1
        /\ stage_log = <<>>

\* C11 witness: a second invocation, over a directory an earlier one filled,
\* exits for want of the Pinecone key.
C11_Witness ==
    /\ ppc = "exited"
    /\ env.mistral /\ ~env.pinecone
    /\ run_no = 2
    /\ \E t \in AllTags : fs[t].repo_dir

\* C15: the download of a tag is skipped only after an earlier download of
\* that tag completed successfully.
C15_SkipOnlyAfterSuccessfulDownload ==
    \A i \in 1..Len(stage_log) :
        (stage_log[i].stage = "download" /\ stage_log[i].outcome = "skipped")
            => writes[stage_log[i].tag].raw >= 1

\* ------------------------------------------------ chunking and recovery
ChunkInit ==
    /\ EmbeddingIdle
    /\ PipelineIdle
    /\ IndexIdle
    /\ corpus \in Corpora
    /\ new_corpus = <<>>
    /\ chunk_to_file = <<>>
    /\ cpc = "chunk"

\* CodePreprocessor._chunk_corpus.
ChunkCorpus ==
    /\ cpc = "chunk"
    /\ new_corpus' = ChunkCorpusFrom(<<>>, corpus)
    /\ cpc' = "embed"
    /\ UNCHANGED <<embedVars, pipeVars, indexVars, corpus, chunk_to_file>>

\* EmbeddingService.run: the loop over chunks.items() that fills chunk_to_file.
ExtractFiles ==
    /\ cpc = "embed"
    /\ chunk_to_file' =
          [i \in 1..Len(new_corpus) |->
              [chunk_id |-> new_corpus[i].chunk_id,
               original_file |-> OriginalFile(new_corpus[i].chunk_id)]]
    /\ cpc' = "done"
    /\ UNCHANGED <<embedVars, pipeVars, indexVars, corpus, new_corpus>>

ChunkNext ==
    \/ ChunkCorpus
    \/ ExtractFiles

ChunkSpec == ChunkInit /\ [][ChunkNext]_vars

\* C12: every emitted chunk, the whole-document fallback included, has the
\* identifier <document_id>_<chunk>_<index> with its 0-based index, and the
\* document identifier recovered by splitting on the marker is the original
\* one, for every document identifier.
C12_ChunkIdRoundTrip ==
    cpc = "done" =>
        \A i \in 1..Len(new_corpus) :
            /\ new_corpus[i].chunk_id =
                  ChunkId(new_corpus[i].orig_id, new_corpus[i].index)
            /\ chunk_to_file[i].original_file = new_corpus[i].orig_id

\* ----------------------------------------- PineconeIndexer.index_repository
\* The repositories and versions index_repository is called for: two
\* repositories of different owners with the same name, at the same tag.
Targets ==
    { [repo_url |-> <<"o", "/", "u">>, version |-> <<"1">>],
      [repo_url |-> <<"p", "/", "u">>, version |-> <<"1">>] }

\* pipeline.extract_repo_name
extract_repo_name(repo_url) == SplitLast(repo_url, <<"/">>)

\* run_pipeline: the arguments of indexer.index_repository for one target.
Arguments(u) ==
    [repo_name |-> extract_repo_name(u.repo_url), version |-> u.version,
     repo_url |-> u.repo_url]

\* A vector id that also depends on the call that produced it.
VectorIdPerCall(repo_name, version, chunk_id) ==
    Str(Len(calls)) \o <<":">> \o repo_name \o <<":">> \o version \o <<":">> \o chunk_id

\* f"{repo_name}:{version}:{chunk_id}"
VectorId(repo_name, version, chunk_id) ==
    repo_name \o <<":">> \o version \o <<":">> \o chunk_id

\* f"{repo_url}/blob/{version}/{file_path}"
FileUrl(repo_url, version, file_path) ==
    repo_url \o <<"/", "b", "l", "o", "b", "/">> \o version \o <<"/">> \o file_path

\* metadata["chunk_to_file"].get(chunk_id, chunk_id)
FilePath(chunk_id) ==
    IF chunk_id \in DOMAIN idx_metadata.chunk_to_file
    THEN idx_metadata.chunk_to_file[chunk_id]
    ELSE chunk_id

\* The vector index_repository builds for position i of the persisted data.
VectorAt(t, i) ==
    LET chunk_id == idx_metadata.chunk_ids[i]
    IN  [id |-> VectorId(t.repo_name, t.version, chunk_id),
         values |-> idx_embeddings[i],
         metadata |-> [repo_name |-> t.repo_name,
                       version |-> t.version,
                       chunk_id |-> chunk_id,
                       original_file |->
                           FileUrl(t.repo_url, t.version, FilePath(chunk_id)),
                       model |-> "codestral-embed"]]

\* zip(metadata["chunk_ids"], embeddings) stops at the shorter of the two.
ZipLen ==
    IF Len(idx_metadata.chunk_ids) <= Len(idx_embeddings)
    THEN Len(idx_metadata.chunk_ids) ELSE Len(idx_embeddings)

\* The vectors appended at positions i..j of the loop, in order.
VectorsFrom(t, i, j) ==
    LET appended == [k \in 1..(j - i + 1) |-> VectorAt(t, i + k - 1)]
    IN  SubSeq(appended, 1, Len(appended))

\* The loop of index_repository without the upsert of the remaining vectors.
RECURSIVE UpsertBatchesNoRemainder(_, _, _)
UpsertBatchesNoRemainder(t, i, sent) ==
    IF i + UpsertBatchSize - 1 <= ZipLen
    THEN UpsertBatchesNoRemainder(t, i + UpsertBatchSize,
             Append(sent, VectorsFrom(t, i, i + UpsertBatchSize - 1)))
    ELSE sent

\* The upsert calls index_repository makes from position i on, `vectors`
\* being empty there, after the upserts `sent`: the list reaches batch_size
\* at position i + batch_size - 1 and is upserted and emptied; when the
\* positions end before that, the vectors collected, if any, are upserted
\* after the loop.
RECURSIVE UpsertBatches(_, _, _)
UpsertBatches(t, i, sent) ==
    IF i + UpsertBatchSize - 1 <= ZipLen
    THEN UpsertBatches(t, i + UpsertBatchSize,
             Append(sent, VectorsFrom(t, i, i + UpsertBatchSize - 1)))
    ELSE IF VectorsFrom(t, i, ZipLen) # <<>>
         THEN Append(sent, VectorsFrom(t, i, ZipLen))
         ELSE sent

\* index.upsert(vectors=...): an entry replaces the stored entry of the same
\* id. The ids of one request are distinct: they come from distinct chunk ids
\* (the keys of the chunks dict) under one repo_name and version.
Upsert(store, vectors) ==
    LET ids == {vectors[i].id : i \in 1..Len(vectors)}
    IN  {e \in store : e.id \notin ids} \cup {vectors[i] : i \in 1..Len(vectors)}

\* The store after the upsert calls of one index_repository, in order.
RECURSIVE UpsertAll(_, _)
UpsertAll(store, sent) ==
    IF sent = <<>> THEN store
    ELSE UpsertAll(Upsert(store, Head(sent)), Tail(sent))

\* The persisted output of a successful EmbeddingService.run over n chunks:
\* one vector per chunk id, the chunk ids distinct (keys of a dict).
PersistedChunkIds(n) == [i \in 1..n |-> ChunkId(<<"f">>, i - 1)]

\* metadata.json as EmbeddingService.run writes it for n chunks.
PersistedMetadata(n) ==
    [chunk_ids |-> PersistedChunkIds(n),
     chunk_to_file |->
         [c \in {PersistedChunkIds(n)[i] : i \in 1..n} |-> OriginalFile(c)]]

IndexInit ==
    /\ EmbeddingIdle
    /\ PipelineIdle
    /\ ChunkIdle
    /\ \E n \in 1..MaxVectors :
          /\ idx_metadata = PersistedMetadata(n)
          /\ idx_embeddings = [i \in 1..n |-> i]
    /\ pinecone = {}
    /\ calls = <<>>

\* What a call leaves in `calls`: its arguments, whether it returned, and the
\* id and values of every vector of every upsert that reached the store.
CallRecord(t, sent, completed) ==
    [repo_url |-> t.repo_url, version |-> t.version, completed |-> completed,
     sent |-> [b \in 1..Len(sent) |->
                 [i \in 1..Len(sent[b]) |->
                     [id |-> sent[b][i].id, values |-> sent[b][i].values]]]]

\* One call of index_repository that returns: every upsert succeeds.
IndexRepository ==
    /\ Len(calls) < MaxIndexCalls
    /\ \E u \in Targets : \E t \in {Arguments(u)} :
          \E sent \in {UpsertBatches(t, 1, <<>>)} :
              /\ pinecone' = UpsertAll(pinecone, sent)
              /\ calls' = Append(calls, CallRecord(t, sent, TRUE))
    /\ UNCHANGED <<embedVars, pipeVars, chunkVars, idx_embeddings, idx_metadata>>

\* One call of index_repository in which an index.upsert raises: the upserts
\* made before it stay in the store and the exception leaves the call.
IndexRepositoryRaises ==
    /\ Len(calls) < MaxIndexCalls
    /\ \E u \in Targets : \E t \in {Arguments(u)} :
          \E all \in {UpsertBatches(t, 1, <<>>)} :
              \E made \in 0..(Len(all) - 1) :
                  \E sent \in {SubSeq(all, 1, made)} :
                      /\ pinecone' = UpsertAll(pinecone, sent)
                      /\ calls' = Append(calls, CallRecord(t, sent, FALSE))
    /\ UNCHANGED <<embedVars, pipeVars, chunkVars, idx_embeddings, idx_metadata>>

IndexNext ==
    \/ IndexRepository
    \/ IndexRepositoryRaises

IndexSpec == IndexInit /\ [][IndexNext]_vars

\* The vectors one call upserted, in the order sent.
RECURSIVE Flatten(_)
Flatten(sent) ==
    IF sent = <<>> THEN <<>> ELSE Head(sent) \o Flatten(Tail(sent))

\* C16: a call of index_repository that returns made upserts of at most 100
\* vectors each, and the vectors sent, in order, are exactly one per persisted
\* chunk id with its embedding: as many as there are chunk ids, none unsent.
C16_EveryVectorUpsertedOnce ==
    \A c \in 1..Len(calls) :
        calls[c].completed =>
            LET flat == Flatten(calls[c].sent)
            IN  /\ \A b \in 1..Len(calls[c].sent) :
                      Len(calls[c].sent[b]) \in 1..UpsertBatchSize
                /\ Len(flat) = Len(idx_metadata.chunk_ids)
                /\ \A i \in 1..Len(flat) :
                      /\ flat[i].id =
                            VectorId(extract_repo_name(calls[c].repo_url),
                                     calls[c].version, idx_metadata.chunk_ids[i])
                      /\ flat[i].values = idx_embeddings[i]

\* A returned call over more vectors than one upsert takes: a full batch in
\* the loop and the remaining vectors after it.
C16_Witness ==
    \E c \in 1..Len(calls) :
        /\ calls[c].completed
        /\ Len(calls[c].sent) = 2
        /\ Len(calls[c].sent[1]) = UpsertBatchSize
        /\ Len(calls[c].sent[2]) >= 1

\* The ids a call sent.
SentIds(c) ==
    LET flat == Flatten(c.sent) IN {flat[i].id : i \in 1..Len(flat)}

\* C13: a returning call of index_repository that follows a returned call for
\* the same repository, version and persisted embeddings upserts the same set
\* of vector ids and leaves the vector store as it was: no new id.
C13_ReindexIdempotent ==
    [][ ( /\ Len(calls) >= 1
          /\ Len(calls') = Len(calls) + 1
          /\ calls[Len(calls)].completed
          /\ calls'[Len(calls')].completed
          /\ calls'[Len(calls')].repo_url = calls[Len(calls)].repo_url
          /\ calls'[Len(calls')].version = calls[Len(calls)].version )
        => /\ pinecone' = pinecone
           /\ SentIds(calls'[Len(calls')]) = SentIds(calls[Len(calls)])
           /\ {e.id : e \in pinecone'} = {e.id : e \in pinecone} ]_vars

\* The same repository and version indexed twice, both calls returning.
C13_Witness ==
    /\ Len(calls) >= 2
    /\ calls[1].completed /\ calls[2].completed
    /\ calls[1].repo_url = calls[2].repo_url
    /\ calls[1].version = calls[2].version
    /\ pinecone # {}

\* C17: two upserted chunks that differ in repository URL, version or chunk
\* identifier never have the same vector id: the chunks of one call have
\* distinct ids, and calls for different repositories or versions share none.
C17_VectorIdsUnique ==
    \A c \in 1..Len(calls) :
        /\ Cardinality(SentIds(calls[c])) = Len(Flatten(calls[c].sent))
        /\ \A d \in 1..Len(calls) :
              (calls[c].repo_url # calls[d].repo_url \/ calls[c].version # calls[d].version)
                  => SentIds(calls[c]) \cap SentIds(calls[d]) = {}

====
